---- MODULE Spec2Model ----
(***************************************************************************)
(* Model of the job, project and quota store of api/simqueue/db.py.        *)
(*                                                                         *)
(* The relational tables are sequences of rows in physical order.  Every   *)
(* handler of db.py is one action.                                         *)
(*   Spec         the quota ledger, one request at a time                  *)
(*   SpecProject  the project lifecycle, one request at a time             *)
(*   SpecConc     delete_quotas_from_project, which awaits between its     *)
(*                deletes, interleaved with the requests of other clients  *)
(*   SpecQuery    the read handlers against a store that holds still       *)
(*   SpecIncr     two clients that each read a quota and write its usage   *)
(***************************************************************************)
EXTENDS Integers, Sequences, FiniteSets, TLC

(* ------------------------------ bounds --------------------------------- *)

\* number of rows the quotas_quota serial primary key hands out
MaxQuotas == 2
\* number of rows of simqueue_job
MaxJobs == 2

(* ------------------------------ values --------------------------------- *)

\* SQL NULL in a Date column, and Python None for a scalar argument
NULL == 0
\* a single-row lookup that found nothing (Python None), else <<row>>
None == << >>
Some(row) == << row >>

\* UUID primary keys of quotas_project; disjoint from the Integer quota ids
ProjectIds == {101, 102}
QuotaIds == 1..MaxQuotas
\* calendar days a Date column or date.today() can hold
Dates == {1}
NullableDates == {NULL} \cup Dates
Collabs == {"collab-a", "collab-b"}
\* members of ProjectStatus; NoStatus is the omitted status argument
Statuses == {"in_prep", "under_review", "rejected", "accepted"}
NoStatus == "None"
Owners == {"alice"}
Texts == {"text"}
\* default page size of the paginated queries
DefaultSize == 10
\* (from_index, size) pairs of the paginated queries
Pages == {<< 0, DefaultSize >>, << 0, 1 >>, << 1, 1 >>}

VARIABLES
    projects,       \* table quotas_project: sequence of rows
    quotas,         \* table quotas_quota: sequence of rows
    next_quota_id,  \* next value of the serial column quotas_quota.id
    fk_enforced,    \* whether the database enforces quotas_quota.project_id -> quotas_project.context
    last,           \* the request completed last: operation, arguments, outcome
    dq,             \* the delete_quotas_from_project request in flight (SpecConc)
    incr,           \* the usage increments in flight, one per client (SpecIncr)
    jobs,           \* table simqueue_job
    logs,           \* table simqueue_log
    comments,       \* table simqueue_comment
    data_items,     \* table simqueue_dataitem
    job_input_data, \* table simqueue_job_input_data
    job_output_data \* table simqueue_job_output_data

\* the tables of the job queue; db.py only reads them
job_tables == << jobs, logs, comments, data_items, job_input_data, job_output_data >>

vars == << projects, quotas, next_quota_id, fk_enforced, last, dq, incr, job_tables >>

(* ------------------------- generic table helpers ----------------------- *)

\* A select().where(..) is SelectSeq with the where clause as its test, a
\* delete().where(..) keeps the rows that fail it, and an update().where(..)
\* replaces the rows that pass it, in place.

\* query.offset(from_index).limit(size)
OffsetLimit(rows, from_index, size) ==
    SubSeq(rows, from_index + 1,
           IF from_index + size < Len(rows) THEN from_index + size ELSE Len(rows))

\* fetch_one: the first row of the result, or None
FetchOne(rows) == IF rows = << >> THEN None ELSE Some(Head(rows))

Range(s) == {s[i] : i \in 1..Len(s)}

\* the record of a completed request; `again` tells that the request before
\* it was the same call on the same identifiers
Request(op, pid, qid, arg, raised, ret) ==
    [op |-> op, pid |-> pid, qid |-> qid, arg |-> arg, raised |-> raised, ret |-> ret,
     again |-> (last.op = op /\ last.pid = pid /\ last.qid = qid)]

NoRequest ==
    [op |-> "none", pid |-> NULL, qid |-> NULL, arg |-> << >>, raised |-> FALSE,
     ret |-> << >>, again |-> FALSE]

DqIdle == [pc |-> "idle", pid |-> NULL, results |-> << >>, start |-> << >>]

\* the clients that increment a quota's usage, and no increment in flight
Clients == {"c1", "c2"}
IncrIdle ==
    [start |-> NULL, qid |-> NULL, pid |-> NULL,
     proc |-> [c \in Clients |-> [pc |-> "done", delta |-> 0, seen |-> None]]]

(* ------------------------------- quotas -------------------------------- *)

\* post_quotas with the usage column filled from the limit
NewQuotaRowUsageFromLimit(id, project_id, quota) ==
    [id |-> id, units |-> quota.units, limit |-> quota.limit, usage |-> quota.limit,
     platform |-> quota.platform, project_id |-> project_id]

\* the row post_quotas inserts
NewQuotaRow(id, project_id, quota) ==
    [id |-> id, units |-> quota.units, limit |-> quota.limit, usage |-> 0,
     platform |-> quota.platform, project_id |-> project_id]

\* select of query_quotas
query_quotas(table, project_id, from_index, size) ==
    IF project_id # NULL
    THEN LET Where(r) == r.project_id = project_id
         IN  OffsetLimit(SelectSeq(table, Where), from_index, size)
    ELSE table

\* get_quota with a where clause on the quota id alone
get_quota_by_id(table, quota_id, project_id) ==
    LET Where(r) == r.id = quota_id
    IN  FetchOne(SelectSeq(table, Where))

\* select of get_quota
get_quota(table, quota_id, project_id) ==
    LET Where(r) == r.id = quota_id /\ r.project_id = project_id
    IN  FetchOne(SelectSeq(table, Where))

\* delete of query_deleteonequota
query_deleteonequota(table, quota_id, project_id) ==
    LET Keep(r) == ~(r.id = quota_id /\ r.project_id = project_id)
    IN  SelectSeq(table, Keep)

\* put_quotas with a where clause on the project alone
put_quotas_of_project(table, project_id, quota, quota_id) ==
    LET Where(r) == r.project_id = project_id
        Set(r) == [r EXCEPT !.limit = quota.limit, !.usage = quota.usage]
    IN  [i \in 1..Len(table) |-> IF Where(table[i]) THEN Set(table[i]) ELSE table[i]]

\* put_quotas adding the supplied usage to the stored one
put_quotas_accumulate(table, project_id, quota, quota_id) ==
    LET Where(r) == r.id = quota_id /\ r.project_id = project_id
        Set(r) == [r EXCEPT !.limit = quota.limit, !.usage = r.usage + quota.usage]
    IN  [i \in 1..Len(table) |-> IF Where(table[i]) THEN Set(table[i]) ELSE table[i]]

\* update of put_quotas
put_quotas(table, project_id, quota, quota_id) ==
    LET Where(r) == r.id = quota_id /\ r.project_id = project_id
        Set(r) == [r EXCEPT !.limit = quota.limit, !.usage = quota.usage]
    IN  [i \in 1..Len(table) |-> IF Where(table[i]) THEN Set(table[i]) ELSE table[i]]

ProjectExists(table, project_id) ==
    \E i \in 1..Len(table) : table[i].context = project_id

QuotasOf(table, project_id) ==
    LET Where(r) == r.project_id = project_id IN SelectSeq(table, Where)

(* ------------------------------ projects ------------------------------- *)

\* post_project stamping submission_date whatever project['submitted'] says
NewProjectRowAlwaysSubmitted(project, today) ==
    [context |-> project.id, collab |-> project.collab, owner |-> project.owner,
     title |-> project.title, abstract |-> project.abstract,
     description |-> project.description, duration |-> 0, start_date |-> NULL,
     accepted |-> project.accepted, submission_date |-> today,
     decision_date |-> NULL]

\* the row post_project inserts
NewProjectRow(project, today) ==
    [context |-> project.id, collab |-> project.collab, owner |-> project.owner,
     title |-> project.title, abstract |-> project.abstract,
     description |-> project.description, duration |-> 0, start_date |-> NULL,
     accepted |-> project.accepted,
     submission_date |-> IF project.submitted THEN today ELSE NULL,
     decision_date |-> NULL]

\* update of put_project
put_project(table, project_id, project_update) ==
    LET Where(r) == r.context = project_id
        Set(r) == [r EXCEPT !.collab = project_update.collab,
                            !.owner = project_update.owner,
                            !.title = project_update.title,
                            !.abstract = project_update.abstract,
                            !.description = project_update.description,
                            !.duration = project_update.duration,
                            !.start_date = project_update.start_date,
                            !.accepted = project_update.accepted,
                            !.submission_date = project_update.submission_date,
                            !.decision_date = project_update.decision_date]
    IN  [i \in 1..Len(table) |-> IF Where(table[i]) THEN Set(table[i]) ELSE table[i]]

\* select of get_project, with transform_project_fields applied
transform_project_fields(row) ==
    [id |-> row.context, collab |-> row.collab, owner |-> row.owner,
     title |-> row.title, abstract |-> row.abstract,
     description |-> row.description, duration |-> row.duration,
     start_date |-> row.start_date, accepted |-> row.accepted,
     submission_date |-> row.submission_date, decision_date |-> row.decision_date]

get_project(table, project_id) ==
    LET Where(r) == r.context = project_id
        found == FetchOne(SelectSeq(table, Where))
    IN  IF found = None THEN None ELSE Some(transform_project_fields(found[1]))

\* the filters query_projects appends for a status
StatusFilter(status, r) ==
    IF status = "accepted" THEN r.accepted = TRUE
    ELSE /\ r.accepted = FALSE
         /\ IF status = "rejected" THEN r.decision_date # NULL
            ELSE IF status = "under_review"
                 THEN r.submission_date # NULL /\ r.decision_date = NULL
                 ELSE r.submission_date = NULL

\* get_list_filter with the comparison of its else branch in both branches
get_list_filter_first(attr, value) == attr = value[1]

\* get_list_filter, applied to a row's column value
get_list_filter(attr, value) ==
    IF Len(value) > 0 THEN attr \in Range(value) ELSE attr = value[1]

\* select of query_projects, with transform_project_fields applied
query_projects(table, status, collab_id, owner_id, from_index, size) ==
    LET Where(r) == /\ (status # NoStatus => StatusFilter(status, r))
                    /\ (collab_id # << >> => get_list_filter(r.collab, collab_id))
                    /\ (owner_id # << >> => get_list_filter(r.owner, owner_id))
        results == OffsetLimit(SelectSeq(table, Where), from_index, size)
    IN  [i \in 1..Len(results) |-> transform_project_fields(results[i])]

\* delete of delete_project
delete_project(table, project_id) ==
    LET Keep(r) == ~(r.context = project_id) IN SelectSeq(table, Keep)

(* -------------------------------- jobs --------------------------------- *)

\* the columns of simqueue_job
JobColumns ==
    {"id", "code", "command", "collab_id", "user_id", "status",
     "hardware_platform", "hardware_config", "timestamp_submission",
     "timestamp_completion", "provenance", "resource_usage"}

\* SQL NULL in a String or Float column of simqueue_job, a stored string and
\* a stored float
SqlNull == [kind |-> "null"]
Text(s) == [kind |-> "text", text |-> s]
Float(x) == [kind |-> "float", value |-> x]

\* a DateTime column counts ticks; a date is the first tick of its day
TicksPerDay == 2
DateTime(day, tick) == day * TicksPerDay + tick
AsDateTime(d) == DateTime(d, 0)

\* the static table from hardware platform to the unit of its resource usage
RESOURCE_USAGE_UNITS ==
    [p \in {"SpiNNaker", "BrainScaleS"} |->
        IF p = "SpiNNaker" THEN "core-hours" ELSE "wafer-hours"]

\* json.loads on the strings json.dumps stored: an object is the set of its
\* << key, value >> members
json_loads(s) ==
    [kind |-> "json",
     value |-> IF s = "{\"n\": 4}" THEN {<< "n", 4 >>} ELSE {}]

\* job.get(key, None)
Get(job, key) == IF key \in DOMAIN job THEN job[key] ELSE SqlNull

\* Python truth of a column value: None and the empty string are false
Truthy(v) == v.kind # "null" /\ (v.kind = "text" => v.text # "")

\* transform_fields with the truth test on resource_usage as well
transform_fields_if_truthy(job) ==
    [c \in DOMAIN job |->
        IF c \in {"hardware_config", "provenance"} /\ Truthy(job[c])
        THEN json_loads(job[c].text)
        ELSE IF c = "resource_usage" /\ job[c].kind # "null" /\ job[c].value # 0
        THEN [kind |-> "usage", value |-> job[c].value,
              units |-> IF job["hardware_platform"] \in DOMAIN RESOURCE_USAGE_UNITS
                        THEN RESOURCE_USAGE_UNITS[job["hardware_platform"]]
                        ELSE "hours"]
        ELSE job[c]]

\* transform_fields, for a job it does not raise on
transform_fields(job) ==
    [c \in DOMAIN job |->
        IF c \in {"hardware_config", "provenance"} /\ Truthy(job[c])
        THEN json_loads(job[c].text)
        ELSE IF c = "resource_usage" /\ job[c].kind # "null"
        THEN [kind |-> "usage", value |-> job[c].value,
              units |-> IF job["hardware_platform"] \in DOMAIN RESOURCE_USAGE_UNITS
                        THEN RESOURCE_USAGE_UNITS[job["hardware_platform"]]
                        ELSE "hours"]
        ELSE job[c]]

\* transform_fields raises KeyError: job["hardware_platform"] is read when
\* resource_usage is not None
TransformRaises(job) ==
    /\ Get(job, "resource_usage").kind # "null"
    /\ "hardware_platform" \notin DOMAIN job

\* the data items a link table relates to a job
RelatedItems(items, links, job_id) ==
    LET Where(d) == \E i \in 1..Len(links) :
                        links[i].dataitem_id = d.id /\ links[i].job_id = job_id
    IN  SelectSeq(items, Where)

\* follow_relationships, for a job it does not raise on
follow_relationships(job, items, inputs, outputs) ==
    [c \in DOMAIN job \cup {"input_data", "output_data"} |->
        IF c = "output_data" THEN RelatedItems(items, outputs, job["id"])
        ELSE IF c = "input_data" THEN RelatedItems(items, inputs, job["id"])
        ELSE job[c]]

\* follow_relationships raises KeyError: it reads job["id"]
FollowRaises(job) == "id" \notin DOMAIN job

\* fields = None of query_jobs
NoFields == << "None" >>

\* dict(result) of a row of jobs.select(), or of the columns named in fields
Projection(row, fields) ==
    IF fields = NoFields THEN row ELSE [c \in Range(fields) |-> row[c]]

\* jobs.c.status == status: the String column is compared with the whole list
\* and equals it for no row
StatusEqualsList(r, status) == FALSE

\* the date filters of query_jobs that keep a row whenever date_range_end is
\* given
DateFilterEndOnly(r, date_range_start, date_range_end) ==
    IF date_range_end # NULL
    THEN r.timestamp_submission <= AsDateTime(date_range_end)
    ELSE date_range_start # NULL =>
            r.timestamp_submission >= AsDateTime(date_range_start)

\* the date filters of query_jobs
DateFilter(r, date_range_start, date_range_end) ==
    IF date_range_start # NULL
    THEN IF date_range_end # NULL
         THEN /\ r.timestamp_submission >= AsDateTime(date_range_start)
              /\ r.timestamp_submission <= AsDateTime(date_range_end)
         ELSE r.timestamp_submission >= AsDateTime(date_range_start)
    ELSE date_range_end # NULL =>
            r.timestamp_submission <= AsDateTime(date_range_end)

\* the rows query_jobs fetches: where(*filters).offset(from_index).limit(size)
query_jobs_rows(table, q) ==
    LET Where(r) ==
            /\ (q.status # << >> => StatusEqualsList(r, q.status))
            /\ (q.user_id # << >> => get_list_filter(r.user_id, q.user_id))
            /\ (q.hardware_platform # << >> =>
                    get_list_filter(r.hardware_platform, q.hardware_platform))
            /\ (q.collab_id # << >> => get_list_filter(r.collab_id, q.collab_id))
            /\ DateFilter(r, q.date_range_start, q.date_range_end)
        results == OffsetLimit(SelectSeq(table, Where), q.from_index, q.size)
    IN  [i \in 1..Len(results) |-> Projection(results[i], q.fields)]

\* the list comprehension of query_jobs raises on one of the fetched rows
QueryJobsRaises(rows) ==
    \E i \in 1..Len(rows) : FollowRaises(rows[i]) \/ TransformRaises(rows[i])

\* what query_jobs returns when nothing raises
query_jobs(table, q, items, inputs, outputs) ==
    LET rows == query_jobs_rows(table, q) IN
    [i \in 1..Len(rows) |->
        transform_fields(follow_relationships(rows[i], items, inputs, outputs))]

\* fetch_one of get_job
get_job_row(table, job_id) ==
    LET Where(r) == r.id = job_id IN FetchOne(SelectSeq(table, Where))

\* fetch_all of get_comments
get_comments(table, job_id) ==
    LET Where(r) == r.job_id = job_id IN SelectSeq(table, Where)

\* fetch_one of get_log
get_log_row(table, job_id) ==
    LET Where(r) == r.job_id = job_id IN FetchOne(SelectSeq(table, Where))

(* ------------------------------- Init ---------------------------------- *)

Init ==
    /\ projects = << >>
    /\ quotas = << >>
    /\ next_quota_id = 1
    /\ fk_enforced \in BOOLEAN
    /\ last = NoRequest
    /\ dq = DqIdle
    /\ incr = IncrIdle
    /\ jobs = << >>
    /\ logs = << >>
    /\ comments = << >>
    /\ data_items = << >>
    /\ job_input_data = << >>
    /\ job_output_data = << >>

(* ---------------------------- request inputs --------------------------- *)

\* what createQuota is called with
QuotaInputs ==
    {[limit |-> 10, platform |-> "SpiNNaker", units |-> "core-hours"],
     [limit |-> 20, platform |-> "BrainScaleS", units |-> "wafer-hours"]}

\* what updateQuota is called with
QuotaUpdates == {[limit |-> 20, usage |-> 1], [limit |-> 10, usage |-> 0]}

\* what createProject is called with
ProjectInputs ==
    [id : ProjectIds, collab : {"collab-a"}, owner : Owners, title : Texts,
     abstract : Texts, description : Texts, submitted : BOOLEAN, accepted : BOOLEAN]

\* what updateProject is called with: the full record
ProjectUpdates ==
    [collab : {"collab-b"}, owner : Owners, title : Texts, abstract : Texts,
     description : Texts, duration : {30}, start_date : NullableDates,
     accepted : BOOLEAN, submission_date : NullableDates,
     decision_date : NullableDates]

\* the projects the ledger specifications create: unsubmitted, not accepted
LedgerProjectInputs == {p \in ProjectInputs : ~p.submitted /\ ~p.accepted}

(* --------------------------- quota handlers ---------------------------- *)

\* post_quotas: INSERT with usage 0; the serial column supplies the id.  An
\* enforced foreign key rejects a project_id that is no project's context.
PostQuotas(project_id, quota) ==
    /\ next_quota_id <= MaxQuotas
    /\ next_quota_id' = next_quota_id + 1
    /\ IF fk_enforced /\ ~ProjectExists(projects, project_id)
       THEN /\ quotas' = quotas
            /\ last' = Request("post_quotas", project_id, NULL, << quota >>, TRUE, None)
       ELSE /\ quotas' = Append(quotas, NewQuotaRow(next_quota_id, project_id, quota))
            /\ last' = Request("post_quotas", project_id, next_quota_id, << quota >>,
                               FALSE, None)
    /\ UNCHANGED << projects, fk_enforced, dq, incr, job_tables >>

\* put_quotas
PutQuotas(project_id, quota, quota_id) ==
    /\ quotas' = put_quotas(quotas, project_id, quota, quota_id)
    /\ last' = Request("put_quotas", project_id, quota_id, << quota >>, FALSE, None)
    /\ UNCHANGED << projects, next_quota_id, fk_enforced, dq, incr, job_tables >>

\* query_deleteonequota, called with (quota_id, project_id)
DeleteOneQuota(quota_id, project_id) ==
    /\ quotas' = query_deleteonequota(quotas, quota_id, project_id)
    /\ last' = Request("query_deleteonequota", project_id, quota_id, << >>, FALSE, None)
    /\ UNCHANGED << projects, next_quota_id, fk_enforced, dq, incr, job_tables >>

\* get_quota
GetQuota(quota_id, project_id) ==
    /\ last' = Request("get_quota", project_id, quota_id, << >>, FALSE,
                       get_quota(quotas, quota_id, project_id))
    /\ UNCHANGED << projects, quotas, next_quota_id, fk_enforced, dq, incr, job_tables >>

\* query_quotas
QueryQuotas(project_id, from_index, size) ==
    /\ last' = Request("query_quotas", project_id, NULL,
                       << [from_index |-> from_index, size |-> size] >>, FALSE,
                       query_quotas(quotas, project_id, from_index, size))
    /\ UNCHANGED << projects, quotas, next_quota_id, fk_enforced, dq, incr, job_tables >>

RECURSIVE delete_quotas_loop(_, _, _)
\* the for loop of delete_quotas_from_project: it calls
\* query_deleteonequota(project_id, result.id), so the callee's quota_id is
\* the project id and its project_id is the row's id
delete_quotas_loop(table, project_id, results) ==
    IF results = << >> THEN table
    ELSE delete_quotas_loop(query_deleteonequota(table, project_id, Head(results).id),
                            project_id, Tail(results))

\* The loop compares the Integer column id with a UUID: a driver that checks
\* the parameter's type raises on the first iteration, another one lets the
\* comparison fail to match.
LoopOutcomes(results) == IF results = << >> THEN {FALSE} ELSE BOOLEAN

\* delete_quotas_from_project, run without any other request in between
DeleteQuotasFromProject(project_id) ==
    LET results == QuotasOf(quotas, project_id) IN
    \E raised \in LoopOutcomes(results) :
        /\ quotas' = IF raised THEN quotas
                     ELSE delete_quotas_loop(quotas, project_id, results)
        /\ last' = Request("delete_quotas_from_project", project_id, NULL, results,
                           raised, None)
        /\ UNCHANGED << projects, next_quota_id, fk_enforced, dq, incr, job_tables >>

(* -------------------------- project handlers --------------------------- *)

\* post_project: INSERT; the primary key rejects a context already present
PostProject(project, today) ==
    /\ IF ProjectExists(projects, project.id)
       THEN /\ projects' = projects
            /\ last' = Request("post_project", project.id, NULL, << project >>, TRUE, None)
       ELSE /\ projects' = Append(projects, NewProjectRow(project, today))
            /\ last' = Request("post_project", project.id, NULL, << project >>, FALSE, None)
    /\ UNCHANGED << quotas, next_quota_id, fk_enforced, dq, incr, job_tables >>

\* put_project
PutProject(project_id, project_update) ==
    /\ projects' = put_project(projects, project_id, project_update)
    /\ last' = Request("put_project", project_id, NULL, << project_update >>, FALSE, None)
    /\ UNCHANGED << quotas, next_quota_id, fk_enforced, dq, incr, job_tables >>

\* get_project
GetProject(project_id) ==
    /\ last' = Request("get_project", project_id, NULL, << >>, FALSE,
                       get_project(projects, project_id))
    /\ UNCHANGED << projects, quotas, next_quota_id, fk_enforced, dq, incr, job_tables >>

\* query_projects
QueryProjects(status, collab_id, owner_id, from_index, size) ==
    /\ last' = Request("query_projects", NULL, NULL,
                       << [status |-> status, collab_id |-> collab_id,
                           owner_id |-> owner_id, from_index |-> from_index,
                           size |-> size] >>, FALSE,
                       query_projects(projects, status, collab_id, owner_id,
                                      from_index, size))
    /\ UNCHANGED << projects, quotas, next_quota_id, fk_enforced, dq, incr, job_tables >>

\* delete_project: DELETE of the project row alone.  An enforced foreign key
\* rejects the delete while a quota row references the project.
DeleteProject(project_id) ==
    /\ IF /\ fk_enforced
          /\ ProjectExists(projects, project_id)
          /\ QuotasOf(quotas, project_id) # << >>
       THEN /\ projects' = projects
            /\ last' = Request("delete_project", project_id, NULL, << >>, TRUE, None)
       ELSE /\ projects' = delete_project(projects, project_id)
            /\ last' = Request("delete_project", project_id, NULL, << >>, FALSE, None)
    /\ UNCHANGED << quotas, next_quota_id, fk_enforced, dq, incr, job_tables >>

(* ---------------------------- specifications --------------------------- *)

\* the quota ledger, one request at a time
Next ==
    \/ \E p \in LedgerProjectInputs, today \in Dates : PostProject(p, today)
    \/ \E p \in ProjectIds : DeleteProject(p)
    \/ \E p \in ProjectIds, q \in QuotaInputs : PostQuotas(p, q)
    \/ \E p \in ProjectIds, q \in QuotaUpdates, id \in QuotaIds : PutQuotas(p, q, id)
    \/ \E id \in QuotaIds, p \in ProjectIds : DeleteOneQuota(id, p)
    \/ \E id \in QuotaIds, p \in ProjectIds : GetQuota(id, p)
    \/ \E p \in ProjectIds \cup {NULL} : QueryQuotas(p, 0, DefaultSize)
    \/ \E p \in ProjectIds : DeleteQuotasFromProject(p)

Spec == Init /\ [][Next]_vars

\* the project lifecycle, one request at a time
NextProject ==
    \/ \E p \in ProjectInputs, today \in Dates : PostProject(p, today)
    \/ \E p \in ProjectIds, u \in ProjectUpdates : PutProject(p, u)
    \/ \E p \in ProjectIds : GetProject(p)
    \/ \E p \in ProjectIds : DeleteProject(p)
    \/ \E st \in Statuses \cup {NoStatus}, c \in {<< >>, << "collab-a" >>} :
            QueryProjects(st, c, << >>, 0, DefaultSize)

SpecProject == Init /\ [][NextProject]_vars

(* ------------- delete_quotas_from_project, await by await -------------- *)

\* up to the first await of the loop: the select has returned its rows
DqSelect(project_id) ==
    /\ dq.pc = "idle"
    /\ dq' = [pc |-> "loop", pid |-> project_id,
              results |-> QuotasOf(quotas, project_id),
              start |-> QuotasOf(quotas, project_id)]
    /\ UNCHANGED << projects, quotas, next_quota_id, fk_enforced, last, incr, job_tables >>

\* one iteration: await query_deleteonequota(project_id, result.id)
DqDelete ==
    /\ dq.pc = "loop"
    /\ dq.results # << >>
    /\ \E raised \in LoopOutcomes(dq.results) :
        IF raised
        THEN /\ quotas' = quotas
             /\ dq' = DqIdle
             /\ last' = Request("delete_quotas_from_project", dq.pid, NULL,
                                dq.start, TRUE, None)
        ELSE /\ quotas' = query_deleteonequota(quotas, dq.pid, Head(dq.results).id)
             /\ dq' = [dq EXCEPT !.results = Tail(dq.results)]
             /\ last' = last
    /\ UNCHANGED << projects, next_quota_id, fk_enforced, incr, job_tables >>

\* the loop is exhausted and the handler returns
DqReturn ==
    /\ dq.pc = "loop"
    /\ dq.results = << >>
    /\ dq' = DqIdle
    /\ last' = Request("delete_quotas_from_project", dq.pid, NULL, dq.start, FALSE, None)
    /\ UNCHANGED << projects, quotas, next_quota_id, fk_enforced, incr, job_tables >>

\* one delete_quotas_from_project request interleaved with the requests of
\* other clients
NextConc ==
    \/ \E p \in ProjectIds : DqSelect(p)
    \/ DqDelete
    \/ DqReturn
    \/ \E p \in LedgerProjectInputs, today \in Dates : PostProject(p, today)
    \/ \E p \in ProjectIds, q \in QuotaInputs : PostQuotas(p, q)
    \/ \E id \in QuotaIds, p \in ProjectIds : GetQuota(id, p)
    \/ \E p \in ProjectIds : QueryQuotas(p, 0, DefaultSize)

SpecConc == Init /\ [][NextConc]_vars

(* ------------------------------ queries -------------------------------- *)

\* The job queue is written by other services; db.py only reads it.  The
\* rows a job can be, apart from its id:
JobProfiles ==
    {[code |-> "text", command |-> "text", collab_id |-> "collab-a",
      user_id |-> "alice", status |-> "finished", hardware_platform |-> "SpiNNaker",
      hardware_config |-> Text("{\"n\": 4}"), timestamp_submission |-> DateTime(1, 0),
      timestamp_completion |-> DateTime(1, 1), provenance |-> SqlNull,
      resource_usage |-> Float(0)],
     [code |-> "text", command |-> "text", collab_id |-> "collab-b",
      user_id |-> "bob", status |-> "submitted", hardware_platform |-> "BrainScaleS",
      hardware_config |-> SqlNull, timestamp_submission |-> DateTime(1, 1),
      timestamp_completion |-> NULL, provenance |-> Text("{}"),
      resource_usage |-> SqlNull],
     [code |-> "text", command |-> "text", collab_id |-> "collab-a",
      user_id |-> "bob", status |-> "finished", hardware_platform |-> "Other",
      hardware_config |-> Text(""), timestamp_submission |-> DateTime(2, 0),
      timestamp_completion |-> DateTime(2, 1), provenance |-> SqlNull,
      resource_usage |-> Float(5)],
     [code |-> "text", command |-> "text", collab_id |-> "collab-b",
      user_id |-> "alice", status |-> "finished", hardware_platform |-> "SpiNNaker",
      hardware_config |-> SqlNull, timestamp_submission |-> DateTime(2, 1),
      timestamp_completion |-> DateTime(2, 1), provenance |-> Text("{\"n\": 4}"),
      resource_usage |-> Float(5)]}

JobIds == 1..MaxJobs

\* the row of simqueue_job with the given id
JobRow(id, profile) == [c \in JobColumns |-> IF c = "id" THEN id ELSE profile[c]]

\* the tables simqueue_job can be: ids in insertion order
JobTables ==
    UNION {{[i \in 1..n |-> JobRow(i, t[i])] : t \in [1..n -> JobProfiles]} :
               n \in 0..MaxJobs}

\* the project and quota tables the queries run against, as post_project,
\* put_project and post_quotas leave them
QueryStores ==
    LET p1 == CHOOSE p \in ProjectInputs : p.id = 101 /\ p.submitted /\ ~p.accepted
        p2 == CHOOSE p \in ProjectInputs : p.id = 102 /\ ~p.submitted /\ ~p.accepted
        u  == CHOOSE u \in ProjectUpdates :
                    /\ u.accepted /\ u.start_date # NULL
                    /\ u.submission_date # NULL /\ u.decision_date # NULL
        q1 == CHOOSE q \in QuotaInputs : q.platform = "SpiNNaker"
        q2 == CHOOSE q \in QuotaInputs : q.platform = "BrainScaleS"
        today == CHOOSE d \in Dates : TRUE
        two == << NewProjectRow(p1, today), NewProjectRow(p2, today) >>
    IN  {[projects |-> << >>, quotas |-> << >>, next_quota_id |-> 1],
         [projects |-> two,
          quotas |-> << NewQuotaRow(1, 101, q1), NewQuotaRow(2, 101, q2) >>,
          next_quota_id |-> 3],
         [projects |-> put_project(two, 102, u),
          quotas |-> << NewQuotaRow(1, 102, q1), NewQuotaRow(2, 101, q2) >>,
          next_quota_id |-> 3]}

\* the first job, when there is one, has a log, two comments, an input and
\* an output data item
InitQuery ==
    /\ fk_enforced = TRUE
    /\ last = NoRequest
    /\ dq = DqIdle
    /\ incr = IncrIdle
    /\ \E st \in QueryStores :
            /\ projects = st.projects
            /\ quotas = st.quotas
            /\ next_quota_id = st.next_quota_id
    /\ jobs \in JobTables
    /\ logs = IF jobs = << >> THEN << >> ELSE << [job_id |-> 1, content |-> "text"] >>
    /\ comments = IF jobs = << >> THEN << >>
                  ELSE << [id |-> 1, content |-> "text", created_time |-> DateTime(1, 1),
                           user |-> "alice", job_id |-> 1],
                          [id |-> 2, content |-> "text", created_time |-> DateTime(2, 0),
                           user |-> "bob", job_id |-> 1] >>
    /\ data_items = IF jobs = << >> THEN << >>
                    ELSE << [id |-> 1, url |-> "text"], [id |-> 2, url |-> "text"] >>
    /\ job_input_data = IF jobs = << >> THEN << >>
                        ELSE << [job_id |-> 1, dataitem_id |-> 1] >>
    /\ job_output_data = IF jobs = << >> THEN << >>
                         ELSE << [job_id |-> 1, dataitem_id |-> 2] >>

\* what queryJobs is called with
JobQuery(status, collab_id, user_id, hardware_platform, start, end, fields, page) ==
    [status |-> status, collab_id |-> collab_id, user_id |-> user_id,
     hardware_platform |-> hardware_platform, date_range_start |-> start,
     date_range_end |-> end, fields |-> fields,
     from_index |-> page[1], size |-> page[2]]

CollabLists == {<< >>, << "collab-a" >>, << "collab-a", "collab-b" >>}
UserLists == {<< >>, << "bob" >>}
PlatformLists == {<< >>, << "SpiNNaker" >>, << "SpiNNaker", "Other" >>}
JobDates == {NULL, 1, 2}
FieldLists ==
    {<< "id", "status" >>,
     << "id", "hardware_platform", "resource_usage", "hardware_config" >>,
     << "hardware_platform", "resource_usage" >>,
     << "id", "resource_usage" >>}
DefaultPage == << 0, DefaultSize >>

JobQueries ==
    {JobQuery(<< >>, c, u, h, NULL, NULL, NoFields, DefaultPage) :
        c \in CollabLists, u \in UserLists, h \in PlatformLists}
    \cup {JobQuery(<< >>, c, << >>, << >>, ds, de, NoFields, DefaultPage) :
        c \in {<< >>, << "collab-a" >>}, ds \in JobDates, de \in JobDates}
    \cup {JobQuery(<< >>, << >>, << >>, << >>, NULL, NULL, f, DefaultPage) :
        f \in FieldLists}
    \cup {JobQuery(<< >>, c, << >>, << >>, NULL, NULL, NoFields, pg) :
        c \in {<< >>, << "collab-b" >>}, pg \in Pages}
    \cup {JobQuery(<< "finished" >>, << >>, << >>, << >>, NULL, NULL, NoFields,
                   DefaultPage)}

\* jobs.c.status == status compares the String column with a list: a driver
\* that checks the parameter's type raises, another one lets the comparison
\* fail to match
StatusOutcomes(status) == IF status = << >> THEN {FALSE} ELSE BOOLEAN

\* query_jobs
QueryJobs(q) ==
    /\ \E status_raises \in StatusOutcomes(q.status) :
        LET rows == query_jobs_rows(jobs, q)
            raised == status_raises \/ QueryJobsRaises(rows)
        IN  last' = Request("query_jobs", NULL, NULL, << q >>, raised,
                            IF raised THEN << >>
                            ELSE query_jobs(jobs, q, data_items, job_input_data,
                                            job_output_data))
    /\ UNCHANGED << projects, quotas, next_quota_id, fk_enforced, dq, incr, job_tables >>

\* get_job: dict(result) raises TypeError when fetch_one returned None
GetJob(job_id) ==
    /\ LET found == get_job_row(jobs, job_id) IN
        last' = Request("get_job", NULL, NULL, << job_id >>, found = None,
                        IF found = None THEN None
                        ELSE Some(transform_fields(
                                follow_relationships(found[1], data_items,
                                                     job_input_data, job_output_data))))
    /\ UNCHANGED << projects, quotas, next_quota_id, fk_enforced, dq, incr, job_tables >>

\* get_comments
GetComments(job_id) ==
    /\ last' = Request("get_comments", NULL, NULL, << job_id >>, FALSE,
                       get_comments(comments, job_id))
    /\ UNCHANGED << projects, quotas, next_quota_id, fk_enforced, dq, incr, job_tables >>

\* get_log: dict(result) raises TypeError when fetch_one returned None
GetLog(job_id) ==
    /\ LET found == get_log_row(logs, job_id) IN
        last' = Request("get_log", NULL, NULL, << job_id >>, found = None, found)
    /\ UNCHANGED << projects, quotas, next_quota_id, fk_enforced, dq, incr, job_tables >>

\* the read requests of db.py against a store that holds still
NextQuery ==
    \/ \E q \in JobQueries : QueryJobs(q)
    \/ \E id \in JobIds \cup {MaxJobs + 1} : GetJob(id)
    \/ \E id \in JobIds \cup {MaxJobs + 1} : GetComments(id)
    \/ \E id \in JobIds \cup {MaxJobs + 1} : GetLog(id)
    \/ \E st \in {NoStatus, "accepted"}, c \in CollabLists,
          o \in {<< >>, << "alice" >>, << "bob" >>}, pg \in Pages :
            QueryProjects(st, c, o, pg[1], pg[2])
    \/ \E p \in ProjectIds : GetProject(p)
    \/ \E p \in ProjectIds \cup {NULL}, pg \in Pages : QueryQuotas(p, pg[1], pg[2])
    \/ \E id \in QuotaIds, p \in ProjectIds : GetQuota(id, p)

SpecQuery == InitQuery /\ [][NextQuery]_vars

(* ------------------ read-then-write usage increments ------------------- *)

\* the usage the quota holds before the increments start, and what a client
\* adds to it
StartUsages == {0, 1}
Deltas == {1, 2}

\* A store with one project and one quota of it, as post_project, post_quotas
\* and put_quotas leave it, and every client about to increment that quota.
InitIncr ==
    /\ fk_enforced \in BOOLEAN
    /\ last = NoRequest
    /\ dq = DqIdle
    /\ next_quota_id = 2
    /\ jobs = << >>
    /\ logs = << >>
    /\ comments = << >>
    /\ data_items = << >>
    /\ job_input_data = << >>
    /\ job_output_data = << >>
    /\ \E p \in LedgerProjectInputs, today \in Dates, q \in QuotaInputs,
          u \in StartUsages, d \in [Clients -> Deltas] :
            /\ projects = << NewProjectRow(p, today) >>
            /\ quotas = put_quotas(<< NewQuotaRow(1, p.id, q) >>, p.id,
                                   [limit |-> q.limit, usage |-> u], 1)
            /\ incr = [start |-> u, qid |-> 1, pid |-> p.id,
                       proc |-> [c \in Clients |->
                                    [pc |-> "read", delta |-> d[c], seen |-> None]]]

\* a client's get_quota: it keeps the row it was answered
IncrRead(c) ==
    /\ incr.proc[c].pc = "read"
    /\ LET result == get_quota(quotas, incr.qid, incr.pid) IN
        /\ incr' = [incr EXCEPT !.proc[c].pc = "write", !.proc[c].seen = result]
        /\ last' = Request("get_quota", incr.pid, incr.qid, << >>, FALSE, result)
    /\ UNCHANGED << projects, quotas, next_quota_id, fk_enforced, dq, job_tables >>

\* the client's put_quotas with usage = the usage it read + its delta
IncrWrite(c) ==
    /\ incr.proc[c].pc = "write"
    /\ incr.proc[c].seen # None
    /\ LET seen == incr.proc[c].seen[1]
           quota == [limit |-> seen.limit, usage |-> seen.usage + incr.proc[c].delta]
       IN  /\ quotas' = put_quotas(quotas, incr.pid, quota, incr.qid)
           /\ last' = Request("put_quotas", incr.pid, incr.qid, << quota >>, FALSE, None)
    /\ incr' = [incr EXCEPT !.proc[c].pc = "done"]
    /\ UNCHANGED << projects, next_quota_id, fk_enforced, dq, job_tables >>

\* the clients' requests, interleaved at the awaits of db.py
NextIncr ==
    \/ \E c \in Clients : IncrRead(c)
    \/ \E c \in Clients : IncrWrite(c)

SpecIncr == InitIncr /\ [][NextIncr]_vars

(* ------------------------------- claims -------------------------------- *)

\* Every handler stamps `last`, so a step that makes last.op = op is a step
\* of that handler.
HasQuota(table, quota_id) == \E i \in 1..Len(table) : table[i].id = quota_id

\* C1: after deleteProject(p) has completed, queryQuotas(p, any page) is
\* the empty sequence.
CascadeDelete ==
    (last.op = "delete_project" /\ ~last.raised) =>
        \A pg \in Pages : query_quotas(quotas, last.pid, pg[1], pg[2]) = << >>

\* C3: deleteAllQuotasForProject(p), run alone, leaves no quota of p and
\* leaves the quotas of every other project as they were.
DeleteAllQuotasDeletesAll ==
    [][last'.op = "delete_quotas_from_project" =>
          /\ QuotasOf(quotas', last'.pid) = << >>
          /\ \A p \in ProjectIds \ {last'.pid} :
                QuotasOf(quotas', p) = QuotasOf(quotas, p)]_vars

\* C5: getQuota(q, p) never returns a row of another project, and returns
\* None for a quota some other project owns; updateQuota(p, q, ..) and
\* deleteQuota(q, p) leave every row that p does not own as it was.
PairKeyed ==
    [][/\ last'.op = "get_quota" =>
            /\ \A i \in 1..Len(last'.ret) : last'.ret[i].project_id = last'.pid
            /\ (\E i \in 1..Len(quotas) : /\ quotas[i].id = last'.qid
                                          /\ quotas[i].project_id # last'.pid)
                  => last'.ret = None
       /\ last'.op \in {"put_quotas", "query_deleteonequota"} =>
            \A i \in 1..Len(quotas) :
                quotas[i].project_id # last'.pid =>
                    \E j \in 1..Len(quotas') : quotas'[j] = quotas[i]]_vars

\* C5 witness: getQuota(q, p') was answered None while another project owns q
PairKeyedWitness ==
    /\ last.op = "get_quota"
    /\ last.ret = None
    /\ \E i \in 1..Len(quotas) : /\ quotas[i].id = last.qid
                                 /\ quotas[i].project_id # last.pid

\* C6: createQuota(p, {limit, platform, units}) followed by getQuota(the new
\* id, p) returns usage 0 and the supplied limit, platform and units; the
\* create succeeds whenever p is a project.
CreateGetRoundTrip ==
    last.op = "post_quotas" =>
        /\ ProjectExists(projects, last.pid) => ~last.raised
        /\ ~last.raised =>
              get_quota(quotas, last.qid, last.pid) =
                  Some([id |-> last.qid, units |-> last.arg[1].units,
                        limit |-> last.arg[1].limit, usage |-> 0,
                        platform |-> last.arg[1].platform,
                        project_id |-> last.pid])

\* C6 witness: a quota has just been created for an existing project
CreateGetRoundTripWitness ==
    /\ last.op = "post_quotas"
    /\ ~last.raised
    /\ ProjectExists(projects, last.pid)
    /\ Len(quotas) = 2

\* C7: updateQuota(p, q, {limit, usage}) on a quota q of p sets q's limit and
\* usage to the supplied values, keeps q's other columns, and changes no
\* other quota row and no project row.
UpdateQuotaFrame ==
    [][last'.op = "put_quotas" =>
          /\ projects' = projects
          /\ Len(quotas') = Len(quotas)
          /\ \A i \in 1..Len(quotas) :
                IF quotas[i].id = last'.qid /\ quotas[i].project_id = last'.pid
                THEN /\ quotas'[i] = [quotas[i] EXCEPT
                                        !.limit = last'.arg[1].limit,
                                        !.usage = last'.arg[1].usage]
                     /\ get_quota(quotas', last'.qid, last'.pid) = Some(quotas'[i])
                ELSE quotas'[i] = quotas[i]]_vars

\* C7 witness: an update has just rewritten one of two quotas of a project
UpdateQuotaFrameWitness ==
    /\ last.op = "put_quotas"
    /\ Len(QuotasOf(quotas, last.pid)) = 2
    /\ \E i \in 1..Len(quotas) : /\ quotas[i].id = last.qid
                                 /\ quotas[i].project_id = last.pid
                                 /\ quotas[i].limit = last.arg[1].limit
                                 /\ quotas[i].usage = 1

\* C8: a deleteProject(p) that follows a deleteProject(p), and a
\* deleteQuota(q, p) that follows a deleteQuota(q, p), raises nothing and
\* changes nothing; so does the delete of an identifier that is not there.
IdempotentDelete ==
    [][/\ last'.op = "delete_project" =>
            /\ last'.again =>
                  (~last'.raised /\ projects' = projects /\ quotas' = quotas)
            /\ ~ProjectExists(projects, last'.pid) =>
                  (~last'.raised /\ projects' = projects /\ quotas' = quotas)
       /\ last'.op = "query_deleteonequota" =>
            /\ last'.again =>
                  (~last'.raised /\ projects' = projects /\ quotas' = quotas)
            /\ ~HasQuota(quotas, last'.qid) =>
                  (~last'.raised /\ projects' = projects /\ quotas' = quotas)]_vars

\* C10 as claimed: a quota's usage is 0 when the row appears and never
\* becomes smaller while the row exists.
UsageNeverDecreases ==
    [][\A j \in 1..Len(quotas') :
          IF HasQuota(quotas, quotas'[j].id)
          THEN \A i \in 1..Len(quotas) :
                  quotas[i].id = quotas'[j].id => quotas'[j].usage >= quotas[i].usage
          ELSE quotas'[j].usage = 0]_vars

\* C10 as amended: a quota's usage is 0 when the row appears and afterwards
\* changes only in an updateQuota of that quota, to the usage supplied.
UsageSetOnlyByUpdate ==
    [][\A j \in 1..Len(quotas') :
          IF HasQuota(quotas, quotas'[j].id)
          THEN \A i \in 1..Len(quotas) :
                  quotas[i].id = quotas'[j].id =>
                      \/ quotas'[j].usage = quotas[i].usage
                      \/ /\ last'.op = "put_quotas"
                         /\ last'.qid = quotas[i].id
                         /\ last'.pid = quotas[i].project_id
                         /\ quotas'[j].usage = last'.arg[1].usage
          ELSE quotas'[j].usage = 0]_vars

\* C10 witness: an update has just set the usage of an existing quota to 0
UsageSetOnlyByUpdateWitness ==
    /\ last.op = "put_quotas"
    /\ last.arg[1].usage = 0
    /\ \E i \in 1..Len(quotas) : /\ quotas[i].id = last.qid
                                 /\ quotas[i].project_id = last.pid
                                 /\ quotas[i].platform = "BrainScaleS"
                                 /\ quotas[i].limit = 10

\* C2: every stored project matches exactly one of the four status filters
\* of queryProjects.
ExactlyOneStatus ==
    \A i \in 1..Len(projects) :
        Cardinality({st \in Statuses : StatusFilter(st, projects[i])}) = 1

\* C9: updateProject(id, ..) with an id that is not in the store
\* fails (NotFound) and leaves the store as it was.
UpdateAbsentFails ==
    [][(last'.op = "put_project" /\ ~ProjectExists(projects, last'.pid)) =>
          (last'.raised /\ projects' = projects /\ quotas' = quotas)]_vars

\* C4: a deleteAllQuotasForProject(p) is all-or-nothing: when it has
\* returned, none of the quotas p had at its start is left, and a read
\* answered while it runs sees all of them or none of them.
AllOrNothing ==
    LET Left(start) == {i \in 1..Len(start) : HasQuota(quotas, start[i].id)} IN
    /\ (last.op = "delete_quotas_from_project" /\ ~last.raised /\ dq.pc = "idle") =>
            Left(last.arg) = {}
    /\ (last.op \in {"get_quota", "query_quotas"} /\ dq.pc = "loop") =>
            Left(dq.start) \in {{}, 1..Len(dq.start)}

\* C11: every stored project with a decision_date has a submission_date, and
\* every stored project with a start_date is accepted.
ProjectRecordInvariant ==
    \A i \in 1..Len(projects) :
        /\ projects[i].decision_date # NULL => projects[i].submission_date # NULL
        /\ projects[i].start_date # NULL => projects[i].accepted

\* the record createProject(spec) is to leave in the store, under its public
\* field names
CreatedProject(project, submission_date) ==
    [id |-> project.id, collab |-> project.collab, owner |-> project.owner,
     title |-> project.title, abstract |-> project.abstract,
     description |-> project.description, duration |-> 0, start_date |-> NULL,
     accepted |-> project.accepted, submission_date |-> submission_date,
     decision_date |-> NULL]

\* the submission dates createProject(spec) may store
SubmissionDates(project) == IF project.submitted THEN Dates ELSE {NULL}

\* C13 as claimed: createProject(spec) stores the record with submission_date
\* today or null, duration 0, no decision_date, no start_date and the supplied
\* accepted flag, returns that record, and getProject(spec.id) returns it too.
CreateProjectReturnsProject ==
    (last.op = "post_project" /\ ~last.raised) =>
        \E d \in SubmissionDates(last.arg[1]) :
            /\ get_project(projects, last.pid) = Some(CreatedProject(last.arg[1], d))
            /\ last.ret = Some(CreatedProject(last.arg[1], d))

\* C13 as amended: createProject(spec) stores that record and returns
\* nothing; getProject(spec.id) then returns the stored record.
CreateProjectStoresProject ==
    (last.op = "post_project" /\ ~last.raised) =>
        \E d \in SubmissionDates(last.arg[1]) :
            /\ get_project(projects, last.pid) = Some(CreatedProject(last.arg[1], d))
            /\ last.ret = None

\* C13 witness: a project declared neither submitted nor accepted has just
\* been created next to another one
CreateProjectStoresProjectWitness ==
    /\ last.op = "post_project"
    /\ ~last.raised
    /\ ~last.arg[1].submitted
    /\ ~last.arg[1].accepted
    /\ Len(projects) = 2

NoLostUpdate ==
    (\A c \in Clients : incr.proc[c].pc = "done") =>
        \A i \in 1..Len(quotas) :
            (quotas[i].id = incr.qid /\ quotas[i].project_id = incr.pid) =>
                quotas[i].usage = incr.start + incr.proc["c1"].delta
                                             + incr.proc["c2"].delta

\* C15: getJob, getLog, getProject and getQuota on an identifier that is not
\* in the store return the absence marker, raise nothing and leave the store
\* as it was.
AbsentLookupReturnsNone ==
    [][LET Absent ==
               \/ /\ last'.op = "get_job"
                  /\ ~\E i \in 1..Len(jobs) : jobs[i].id = last'.arg[1]
               \/ /\ last'.op = "get_log"
                  /\ ~\E i \in 1..Len(logs) : logs[i].job_id = last'.arg[1]
               \/ /\ last'.op = "get_project"
                  /\ ~\E i \in 1..Len(projects) : projects[i].context = last'.pid
               \/ /\ last'.op = "get_quota"
                  /\ ~\E i \in 1..Len(quotas) : /\ quotas[i].id = last'.qid
                                                  /\ quotas[i].project_id = last'.pid
       IN  Absent => /\ ~last'.raised
                     /\ last'.ret = None
                     /\ projects' = projects
                     /\ quotas' = quotas
                     /\ job_tables' = job_tables]_vars

\* C19: queryJobs with a status-free filter and any fields list raises
\* nothing and returns jobs that carry exactly the listed columns plus
\* input_data and output_data.
ProjectionSucceeds ==
    (last.op = "query_jobs" /\ last.arg[1].status = << >>) =>
        /\ ~last.raised
        /\ last.arg[1].fields # NoFields =>
              \A i \in 1..Len(last.ret) :
                  DOMAIN last.ret[i] =
                      Range(last.arg[1].fields) \cup {"input_data", "output_data"}

\* the records at positions [i, i + n) of a sequence, counted from 0
Slice(rows, i, n) ==
    LET left == IF Len(rows) > i THEN Len(rows) - i ELSE 0
    IN  [k \in 1..(IF left < n THEN left ELSE n) |-> rows[i + k]]

\* C12: queryJobs, queryProjects and queryQuotas with from_index = i and
\* size = n raise nothing and return at most n records, namely positions
\* [i, i + n) of the sequence of all records that match the filters.
Pagination ==
    /\ last.op = "query_jobs" =>
          /\ ~last.raised
          /\ LET q == last.arg[1]
                 all == [q EXCEPT !.from_index = 0, !.size = Len(jobs)]
             IN  /\ Len(last.ret) <= q.size
                 /\ last.ret = Slice(query_jobs(jobs, all, data_items, job_input_data,
                                                 job_output_data),
                                      q.from_index, q.size)
    /\ last.op = "query_projects" =>
          /\ ~last.raised
          /\ LET q == last.arg[1] IN
              /\ Len(last.ret) <= q.size
              /\ last.ret = Slice(query_projects(projects, q.status, q.collab_id,
                                                  q.owner_id, 0, Len(projects)),
                                   q.from_index, q.size)
    /\ last.op = "query_quotas" =>
          /\ ~last.raised
          /\ LET q == last.arg[1]
                 Matches(r) == last.pid # NULL => r.project_id = last.pid
             IN  /\ Len(last.ret) <= q.size
                 /\ last.ret = Slice(SelectSeq(quotas, Matches), q.from_index, q.size)

\* C16: a list filter of queryJobs or queryProjects matches exactly the
\* records whose column value is in the list, and a record is returned only
\* if every list filter given matches it.
ListFiltersAreMembership ==
    LET In(list, v) == list # << >> => \E k \in 1..Len(list) : list[k] = v
        q == last.arg[1]
        JobMember(r) == /\ In(q.collab_id, r.collab_id)
                        /\ In(q.user_id, r.user_id)
                        /\ In(q.hardware_platform, r.hardware_platform)
        ProjectMember(r) == In(q.collab_id, r.collab) /\ In(q.owner_id, r.owner)
    IN
    /\ (last.op = "query_jobs" /\ ~last.raised) =>
          /\ \A i \in 1..Len(last.ret) :
                \E j \in 1..Len(jobs) : /\ jobs[j].id = last.ret[i].id
                                         /\ JobMember(jobs[j])
          /\ ( /\ q.status = << >>
               /\ q.date_range_start = NULL /\ q.date_range_end = NULL
               /\ q.from_index = 0 /\ q.size >= Len(jobs) ) =>
                {last.ret[i].id : i \in 1..Len(last.ret)} =
                    {jobs[j].id : j \in {k \in 1..Len(jobs) : JobMember(jobs[k])}}
    /\ last.op = "query_projects" =>
          /\ \A i \in 1..Len(last.ret) :
                \E j \in 1..Len(projects) : /\ projects[j].context = last.ret[i].id
                                             /\ ProjectMember(projects[j])
          /\ (q.status = NoStatus /\ q.from_index = 0 /\ q.size >= Len(projects)) =>
                {last.ret[i].id : i \in 1..Len(last.ret)} =
                    {projects[j].context :
                        j \in {k \in 1..Len(projects) : ProjectMember(projects[k])}}

\* C16 witness: a queryJobs with a one-element collab_id list and a
\* two-element hardware_platform list returned one of two stored jobs
ListFiltersAreMembershipWitness ==
    /\ last.op = "query_jobs"
    /\ ~last.raised
    /\ Len(last.arg[1].collab_id) = 1
    /\ Len(last.arg[1].hardware_platform) = 2
    /\ Len(jobs) = 2
    /\ Len(last.ret) = 1
    /\ last.ret[1].hardware_platform = "Other"

\* C17: the date range of queryJobs excludes exactly the jobs submitted before
\* date_range_start, when it is given, and those submitted after
\* date_range_end, when it is given; with neither it excludes no job.
DateRangeFilter ==
    (last.op = "query_jobs" /\ ~last.raised /\ last.arg[1].from_index = 0
        /\ last.arg[1].size >= Len(jobs)) =>
        LET q == last.arg[1]
            InRange(job) ==
                /\ q.date_range_start # NULL =>
                        job.timestamp_submission >= AsDateTime(q.date_range_start)
                /\ q.date_range_end # NULL =>
                        job.timestamp_submission <= AsDateTime(q.date_range_end)
            undated == [q EXCEPT !.date_range_start = NULL, !.date_range_end = NULL]
        IN  last.ret = SelectSeq(query_jobs(jobs, undated, data_items, job_input_data,
                                            job_output_data), InRange)

\* C17 witness: with both bounds on the same day, a job submitted at that
\* day's first instant was returned and the other stored job was not
DateRangeFilterWitness ==
    /\ last.op = "query_jobs"
    /\ ~last.raised
    /\ last.arg[1].date_range_start = 1
    /\ last.arg[1].date_range_end = 1
    /\ Len(jobs) = 2
    /\ Len(last.ret) = 1
    /\ last.ret[1].timestamp_submission = AsDateTime(1)

\* C18: in every job getJob or queryJobs returns, a stored resource_usage,
\* 0 included, has become {value, units} with the unit registered for the
\* job's hardware_platform, or "hours" if none is; a null resource_usage is
\* still null; and every other column but hardware_config and provenance
\* holds the stored value.
ResourceUsageTransform ==
    (last.op \in {"get_job", "query_jobs"} /\ ~last.raised) =>
        \A i \in 1..Len(last.ret) :
            LET job == last.ret[i]
                row == CHOOSE r \in Range(jobs) : r.id = job.id
                units == IF row.hardware_platform \in DOMAIN RESOURCE_USAGE_UNITS
                         THEN RESOURCE_USAGE_UNITS[row.hardware_platform]
                         ELSE "hours"
            IN  \A c \in DOMAIN job \cap JobColumns :
                    IF c = "resource_usage"
                    THEN IF row[c] = SqlNull
                         THEN job[c] = SqlNull
                         ELSE job[c] = [kind |-> "usage", value |-> row[c].value,
                                        units |-> units]
                    ELSE c \notin {"hardware_config", "provenance"} => job[c] = row[c]

\* C18 witness: getJob returned a job whose stored resource_usage is 0
ResourceUsageTransformWitness ==
    /\ last.op = "get_job"
    /\ ~last.raised
    /\ last.ret[1].resource_usage =
            [kind |-> "usage", value |-> 0, units |-> "core-hours"]

====
